---- MODULE Spec2Model ----
(***************************************************************************)
(* A model of src/imaging: CategoricalImage (categorical.py) and the       *)
(* adjacency check (adjacency.py).                                         *)
(*                                                                         *)
(* Objects live in a heap, so that sharing between the caller's objects    *)
(* and the image's fields is a fact of the model and not an assumption.    *)
(* A numpy array is a record [shape, cells]: shape is the sequence of      *)
(* dimension sizes, cells maps every index tuple (0-based) to its value.   *)
(* A Python list / tuple is a record [items, mutable].                     *)
(***************************************************************************)
EXTENDS Integers, Sequences, FiniteSets, TLC

VARIABLES heap, image, ret

vars == <<heap, image, ret>>

----------------------------------------------------------------------------
(* Bounds of the model                                                     *)

\* the longest axis of an enumerated array
MaxDim == 3
\* the largest number of cells of an enumerated array
MaxVoxels == 8
\* the largest number of cells of an array of a caller that goes on to mutate it
SmallVoxels == 2
\* the longest enumerated category list
MaxCats == 3

----------------------------------------------------------------------------
(* Names and their order                                                   *)

Names == {"background", "green", "red"}

\* the code points of a name: Python and numpy order strings by them
CodePoints(name) ==
    CASE name = "background" -> <<98, 97, 99, 107, 103, 114, 111, 117, 110, 100>>
      [] name = "green" -> <<103, 114, 101, 101, 110>>
      [] name = "red" -> <<114, 101, 100>>

RECURSIVE SeqLess(_, _)
SeqLess(s, t) ==
    IF s = <<>> THEN t # <<>>
    ELSE IF t = <<>> THEN FALSE
    ELSE IF Head(s) # Head(t) THEN Head(s) < Head(t)
    ELSE SeqLess(Tail(s), Tail(t))

\* str.__lt__
StrLess(a, b) == SeqLess(CodePoints(a), CodePoints(b))

Range(s) == {s[i] : i \in 1..Len(s)}

\* the elements of a finite set of names in increasing order
RECURSIVE SortedSeq(_)
SortedSeq(S) ==
    IF S = {} THEN <<>>
    ELSE LET m == CHOOSE a \in S : \A b \in S \ {a} : StrLess(a, b)
         IN <<m>> \o SortedSeq(S \ {m})

----------------------------------------------------------------------------
(* Arrays                                                                  *)

RECURSIVE Positions(_)
Positions(shape) ==
    IF shape = <<>> THEN {<<>>}
    ELSE {<<i>> \o r : i \in 0..(Head(shape) - 1), r \in Positions(Tail(shape))}

\* ndarray.ndim
ndim(a) == Len(a.shape)

RECURSIVE Product(_)
Product(s) == IF s = <<>> THEN 1 ELSE Head(s) * Product(Tail(s))

\* ndarray.size
size(a) == Product(a.shape)

Values(a) == {a.cells[p] : p \in DOMAIN a.cells}

Max(S) == CHOOSE m \in S : \A v \in S : v <= m
Min(S) == CHOOSE m \in S : \A v \in S : m <= v

\* np.any on a boolean array
np_any(mask) == \E p \in DOMAIN mask.cells : mask.cells[p]

\* array == scalar, elementwise
EqScalar(a, v) == [shape |-> a.shape, cells |-> [p \in DOMAIN a.cells |-> a.cells[p] = v]]

\* ndarray.astype(np.int32, copy=True): a new array; it is taken only of data
\* whose values passed the range checks, and int32 keeps such a value as it is
AsTypeInt32(a) == [shape |-> a.shape, cells |-> [p \in DOMAIN a.cells |-> a.cells[p]]]

----------------------------------------------------------------------------
(* The heap                                                                *)

ObjIds == {"caller_data", "caller_categories", "caller_labels",
           "encoded", "unique", "image_data", "image_categories", "result"}

Free == [free |-> TRUE]

List(items) == [items |-> items, mutable |-> TRUE]
Tuple(items) == [items |-> items, mutable |-> FALSE]

NoImage == [exists |-> FALSE]

\* outcomes of a call
Return(v) == [status |-> "return", value |-> v]
Raise(kind, arg) == [status |-> "raise", value |-> [kind |-> kind, arg |-> arg]]

Store(h, id, v) == [h EXCEPT ![id] = v]

----------------------------------------------------------------------------
(* CategoricalImage                                                        *)

\* a check that finds a repeated name only next to its first occurrence
HasDuplicatesAdjacent(categories) ==
    \E i \in 1..(Len(categories) - 1) : categories[i] = categories[i + 1]

\* len(categories) != len(set(categories))
HasDuplicates(categories) == Len(categories) # Cardinality(Range(categories))

\* a range check that lets the value len(categories) pass
ValueTooLargeStrict(max_value, categories) == max_value > Len(categories)

\* the range check on the largest value of the data
ValueTooLarge(max_value, categories) == max_value >= Len(categories)

\* the image keeps the caller's array itself
SharedData(h, dataId) == [heap |-> h, id |-> dataId]

\* the data the image keeps: a converted copy in an object of its own
OwnData(h, dataId) ==
    [heap |-> Store(h, "image_data", AsTypeInt32(h[dataId])), id |-> "image_data"]

\* the categories the image keeps: a list is replaced by a tuple of its items
OwnCategories(h, catsId) ==
    IF h[catsId].mutable
    THEN [heap |-> Store(h, "image_categories", Tuple(h[catsId].items)),
          id |-> "image_categories"]
    ELSE [heap |-> h, id |-> catsId]

\* an index that counts from 1, as enumerate(categories, 1) gives
CategoryToIndexFromOne(categories) ==
    [c \in Range(categories) |-> Max({i \in 1..Len(categories) : categories[i] = c})]

\* {cat: idx for idx, cat in enumerate(categories)}: a later index replaces an earlier
CategoryToIndex(categories) ==
    [c \in Range(categories) |->
        Max({i \in 1..Len(categories) : categories[i] = c}) - 1]

\* a validation that looks at the largest value before the smallest
post_init_range_first(h, dataId, catsId) ==
    LET data == h[dataId]
        categories == h[catsId].items
    IN  IF ndim(data) # 3
        THEN [heap |-> h, out |-> Raise("InvalidShape", ndim(data))]
        ELSE IF size(data) = 0
        THEN [heap |-> h, out |-> Raise("EmptyVolume", 0)]
        ELSE IF Len(categories) = 0
        THEN [heap |-> h, out |-> Raise("InvalidCategories", "empty")]
        ELSE IF HasDuplicates(categories)
        THEN [heap |-> h, out |-> Raise("InvalidCategories", "duplicate")]
        ELSE LET max_value == Max(Values(data))
                 min_value == Min(Values(data))
             IN  IF ValueTooLarge(max_value, categories)
                 THEN [heap |-> h, out |-> Raise("ValueOutOfRange", max_value)]
                 ELSE IF min_value < 0
                 THEN [heap |-> h, out |-> Raise("NegativeValue", min_value)]
                 ELSE LET d == OwnData(h, dataId)
                          c == OwnCategories(d.heap, catsId)
                      IN  [heap |-> c.heap,
                           out |-> Return([exists |-> TRUE,
                                           data |-> d.id,
                                           categories |-> c.id,
                                           _category_to_index |->
                                               CategoryToIndex(c.heap[c.id].items)])]

\* CategoricalImage(data, categories): the generated __init__ binds both
\* arguments as they are, and __post_init__ validates and replaces them
post_init(h, dataId, catsId) ==
    LET data == h[dataId]
        categories == h[catsId].items
    IN  IF ndim(data) # 3
        THEN [heap |-> h, out |-> Raise("InvalidShape", ndim(data))]
        ELSE IF size(data) = 0
        THEN [heap |-> h, out |-> Raise("EmptyVolume", 0)]
        ELSE IF Len(categories) = 0
        THEN [heap |-> h, out |-> Raise("InvalidCategories", "empty")]
        ELSE IF HasDuplicates(categories)
        THEN [heap |-> h, out |-> Raise("InvalidCategories", "duplicate")]
        ELSE LET max_value == Max(Values(data))
                 min_value == Min(Values(data))
             IN  IF min_value < 0
                 THEN [heap |-> h, out |-> Raise("NegativeValue", min_value)]
                 ELSE IF ValueTooLarge(max_value, categories)
                 THEN [heap |-> h, out |-> Raise("ValueOutOfRange", max_value)]
                 ELSE LET d == OwnData(h, dataId)
                          c == OwnCategories(d.heap, catsId)
                      IN  [heap |-> c.heap,
                           out |-> Return([exists |-> TRUE,
                                           data |-> d.id,
                                           categories |-> c.id,
                                           _category_to_index |->
                                               CategoryToIndex(c.heap[c.id].items)])]

\* the distinct values from the largest to the smallest
np_unique_descending(labels) ==
    LET sorted == SortedSeq(Values(labels))
    IN  [i \in 1..Len(sorted) |-> sorted[Len(sorted) + 1 - i]]

\* np.unique on an array of strings: the distinct values, sorted
np_unique(labels) == SortedSeq(Values(labels))

\* np.zeros(shape, dtype=np.int32)
np_zeros(shape) == [shape |-> shape, cells |-> [p \in Positions(shape) |-> 0]]

\* for idx, category in enumerate(categories): data[labels == category] = idx
RECURSIVE EncodeLoop(_, _, _, _)
EncodeLoop(labels, categories, i, data) ==
    IF i > Len(categories) THEN data
    ELSE EncodeLoop(labels, categories, i + 1,
            [data EXCEPT !.cells =
                [p \in DOMAIN data.cells |->
                    IF labels.cells[p] = categories[i] THEN i - 1 ELSE data.cells[p]]])

from_labels(h, labelsId) ==
    LET labels == h[labelsId]
    IN  IF ndim(labels) # 3
        THEN [heap |-> h, out |-> Raise("InvalidShape", ndim(labels))]
        ELSE IF size(labels) = 0
        THEN [heap |-> h, out |-> Raise("EmptyVolume", 0)]
        ELSE LET categories == np_unique(labels)
                 data == EncodeLoop(labels, categories, 1, np_zeros(labels.shape))
                 h1 == Store(Store(h, "unique", Tuple(categories)), "encoded", data)
             IN  post_init(h1, "encoded", "unique")

Data(h, img) == h[img.data]
Categories(h, img) == h[img.categories].items

\* the shape property
shape(h, img) == Return(Data(h, img).shape)

\* a has_category that asks the category list only
has_category_of_list(h, img, category) ==
    Return(category \in DOMAIN img._category_to_index)

has_category(h, img, category) ==
    IF category \notin DOMAIN img._category_to_index
    THEN Return(FALSE)
    ELSE Return(np_any(EqScalar(Data(h, img), img._category_to_index[category])))

\* a mask that is refused to a category no voxel carries
get_mask_of_present(h, img, category) ==
    IF has_category(h, img, category) = Return(FALSE)
    THEN [heap |-> h, out |-> Raise("UnknownCategory", category)]
    ELSE [heap |-> Store(h, "result",
                         EqScalar(Data(h, img), img._category_to_index[category])),
          out |-> Return("result")]

\* a mask computed in the data of the image itself, which is left holding 1
\* where the mask is true and 0 elsewhere
get_mask_in_place(h, img, category) ==
    IF category \notin DOMAIN img._category_to_index
    THEN [heap |-> h, out |-> Raise("UnknownCategory", category)]
    ELSE LET mask == EqScalar(Data(h, img), img._category_to_index[category])
             written == [shape |-> mask.shape,
                         cells |-> [p \in DOMAIN mask.cells |->
                                      IF mask.cells[p] THEN 1 ELSE 0]]
         IN  [heap |-> Store(Store(h, img.data, written), "result", mask),
              out |-> Return("result")]

get_mask(h, img, category) ==
    IF category \notin DOMAIN img._category_to_index
    THEN [heap |-> h, out |-> Raise("UnknownCategory", category)]
    ELSE [heap |-> Store(h, "result",
                         EqScalar(Data(h, img), img._category_to_index[category])),
          out |-> Return("result")]

\* the value np.empty(shape, dtype=object) holds before any assignment
NoneLabel == "None"

\* a decoding that takes the codes to start at 1
RECURSIVE DecodeLoopFromOne(_, _, _, _)
DecodeLoopFromOne(data, categories, i, labels) ==
    IF i > Len(categories) THEN labels
    ELSE DecodeLoopFromOne(data, categories, i + 1,
            [labels EXCEPT !.cells =
                [p \in DOMAIN labels.cells |->
                    IF data.cells[p] = i THEN categories[i] ELSE labels.cells[p]]])

\* for idx, category in enumerate(self.categories): labels[self.data == idx] = category
RECURSIVE DecodeLoop(_, _, _, _)
DecodeLoop(data, categories, i, labels) ==
    IF i > Len(categories) THEN labels
    ELSE DecodeLoop(data, categories, i + 1,
            [labels EXCEPT !.cells =
                [p \in DOMAIN labels.cells |->
                    IF data.cells[p] = i - 1 THEN categories[i] ELSE labels.cells[p]]])

get_labels(h, img) ==
    LET empty == [shape |-> Data(h, img).shape,
                  cells |-> [p \in DOMAIN Data(h, img).cells |-> NoneLabel]]
    IN  [heap |-> Store(h, "result",
                        DecodeLoop(Data(h, img), Categories(h, img), 1, empty)),
         out |-> Return("result")]

\* a count that is 0 for a name the category list does not have
count_voxels_lenient(h, img, category) ==
    IF category \notin DOMAIN img._category_to_index
    THEN Return(0)
    ELSE LET mask == EqScalar(Data(h, img), img._category_to_index[category])
         IN  Return(Cardinality({p \in DOMAIN mask.cells : mask.cells[p]}))

\* int(np.sum(self.data == category_index))
count_voxels(h, img, category) ==
    IF category \notin DOMAIN img._category_to_index
    THEN Raise("UnknownCategory", category)
    ELSE LET mask == EqScalar(Data(h, img), img._category_to_index[category])
         IN  Return(Cardinality({p \in DOMAIN mask.cells : mask.cells[p]}))

\* {cat: self.count_voxels(cat) for cat in self.categories}
get_category_stats(h, img) ==
    LET counts == [cat \in Range(Categories(h, img)) |-> count_voxels(h, img, cat)]
    IN  IF \E cat \in DOMAIN counts : counts[cat].status = "raise"
        THEN LET i == Min({j \in 1..Len(Categories(h, img)) :
                              counts[Categories(h, img)[j]].status = "raise"})
             IN  counts[Categories(h, img)[i]]
        ELSE Return([cat \in DOMAIN counts |-> counts[cat].value])

----------------------------------------------------------------------------
(* Adjacency                                                               *)

\* ndimage.generate_binary_structure(3, 3): the offsets of a 3x3x3 block whose
\* squared distance from the centre is at most the connectivity
Connectivity == 3

\* a structuring element of face neighbours only, as connectivity 1 gives
FaceStructure ==
    {o \in {-1, 0, 1} \X {-1, 0, 1} \X {-1, 0, 1} :
        o[1] * o[1] + o[2] * o[2] + o[3] * o[3] <= 1}

Structure ==
    {o \in {-1, 0, 1} \X {-1, 0, 1} \X {-1, 0, 1} :
        o[1] * o[1] + o[2] * o[2] + o[3] * o[3] <= Connectivity}

\* a dilation that looks for a set cell in one direction only
binary_dilation_forward(mask, structure) ==
    [shape |-> mask.shape,
     cells |-> [p \in DOMAIN mask.cells |->
                  \E o \in {x \in structure : x[1] >= 0 /\ x[2] >= 0 /\ x[3] >= 0} :
                      LET q == <<p[1] + o[1], p[2] + o[2], p[3] + o[3]>>
                      IN  q \in DOMAIN mask.cells /\ mask.cells[q]]]

\* a dilation over a volume whose opposite faces are joined (mode wrap)
binary_dilation_wrap(mask, structure) ==
    [shape |-> mask.shape,
     cells |-> [p \in DOMAIN mask.cells |->
                  \E o \in structure :
                      LET q == <<(p[1] + o[1]) % mask.shape[1],
                                 (p[2] + o[2]) % mask.shape[2],
                                 (p[3] + o[3]) % mask.shape[3]>>
                      IN  mask.cells[q]]]

\* ndimage.binary_dilation(mask, structure=structure): one iteration, cells
\* outside the array count as False (border_value=0)
binary_dilation(mask, structure) ==
    [shape |-> mask.shape,
     cells |-> [p \in DOMAIN mask.cells |->
                  \E o \in structure :
                      LET q == <<p[1] + o[1], p[2] + o[2], p[3] + o[3]>>
                      IN  q \in DOMAIN mask.cells /\ mask.cells[q]]]

\* dilated_mask1 & mask2
And(a, b) == [shape |-> a.shape, cells |-> [p \in DOMAIN a.cells |-> a.cells[p] /\ b.cells[p]]]

\* the last lines of check_category_adjacency: dilate the first mask and
\* intersect it with the second
Overlap(mask1, mask2) == np_any(And(binary_dilation(mask1, Structure), mask2))

\* if not np.any(mask1) or not np.any(mask2)
EitherAbsent(mask1, mask2) == ~np_any(mask1) \/ ~np_any(mask2)

\* the argument of the legacy path: a raw array, by reference
NdArray(id) == [ndarray |-> id]

\* isinstance(image, CategoricalImage)
IsCategoricalImage(arg) == "exists" \in DOMAIN arg

\* the category_map argument: None, or a dict from codes to names
NoMap == [none |-> TRUE, items |-> <<>>]
Dict(items) == [none |-> FALSE, items |-> items]

\* category_map is None
IsNone(category_map) == category_map.none

\* a dict {0: categories[0], 1: categories[1], ...}
MapOf(categories) ==
    Dict([code \in 0..(Len(categories) - 1) |-> categories[code + 1]])

\* {name: value for value, name in category_map.items()}: the last value of a name stays
ReverseMap(category_map) ==
    LET items == category_map.items
    IN  [name \in {items[v] : v \in DOMAIN items} |->
            Max({v \in DOMAIN items : items[v] = name})]

\* the CategoricalImage path, with category1's emptiness decided before
\* category2 is looked up
adjacency_of_image_eager(h, img, category1, category2) ==
    LET m1 == get_mask(h, img, category1)
    IN  IF m1.out.status = "raise" THEN [heap |-> h, out |-> m1.out]
        ELSE IF ~np_any(m1.heap[m1.out.value]) THEN [heap |-> h, out |-> Return(FALSE)]
        ELSE LET m2 == get_mask(h, img, category2)
             IN  IF m2.out.status = "raise" THEN [heap |-> h, out |-> m2.out]
                 ELSE [heap |-> h,
                       out |-> Return(Overlap(m1.heap[m1.out.value],
                                              m2.heap[m2.out.value]))]

\* check_category_adjacency, the CategoricalImage path; the masks are
\* temporaries of the call, so the heap it leaves is the heap it found
adjacency_of_image(h, img, category1, category2) ==
    LET m1 == get_mask(h, img, category1)
        m2 == get_mask(h, img, category2)
    IN  IF m1.out.status = "raise" THEN [heap |-> h, out |-> m1.out]
        ELSE IF m2.out.status = "raise" THEN [heap |-> h, out |-> m2.out]
        ELSE LET mask1 == m1.heap[m1.out.value]
                 mask2 == m2.heap[m2.out.value]
             IN  IF EitherAbsent(mask1, mask2)
                 THEN [heap |-> h, out |-> Return(FALSE)]
                 ELSE [heap |-> h, out |-> Return(Overlap(mask1, mask2))]

\* the legacy path with the first mask computed in the raw array itself
adjacency_of_array_in_place(h, id, category1, category2, category_map) ==
    IF IsNone(category_map)
    THEN [heap |-> h, out |-> Raise("MissingMapping", 0)]
    ELSE LET reverse_map == ReverseMap(category_map)
         IN  IF category1 \notin DOMAIN reverse_map
             THEN [heap |-> h, out |-> Raise("UnknownCategory", category1)]
             ELSE IF category2 \notin DOMAIN reverse_map
             THEN [heap |-> h, out |-> Raise("UnknownCategory", category2)]
             ELSE LET mask1 == EqScalar(h[id], reverse_map[category1])
                      mask2 == EqScalar(h[id], reverse_map[category2])
                      written == [shape |-> h[id].shape,
                                  cells |-> [p \in DOMAIN h[id].cells |->
                                               IF mask1.cells[p] THEN 1 ELSE 0]]
                  IN  [heap |-> Store(h, id, written),
                       out |-> Return(~EitherAbsent(mask1, mask2) /\ Overlap(mask1, mask2))]

\* the legacy path without the check of the size
adjacency_of_array_any_size(h, id, category1, category2, category_map) ==
    IF IsNone(category_map)
    THEN [heap |-> h, out |-> Raise("MissingMapping", 0)]
    ELSE IF ndim(h[id]) # 3
    THEN [heap |-> h, out |-> Raise("InvalidShape", ndim(h[id]))]
    ELSE LET reverse_map == ReverseMap(category_map)
         IN  IF category1 \notin DOMAIN reverse_map
             THEN [heap |-> h, out |-> Raise("UnknownCategory", category1)]
             ELSE IF category2 \notin DOMAIN reverse_map
             THEN [heap |-> h, out |-> Raise("UnknownCategory", category2)]
             ELSE LET mask1 == EqScalar(h[id], reverse_map[category1])
                      mask2 == EqScalar(h[id], reverse_map[category2])
                  IN  IF EitherAbsent(mask1, mask2)
                      THEN [heap |-> h, out |-> Return(FALSE)]
                      ELSE [heap |-> h, out |-> Return(Overlap(mask1, mask2))]

\* the legacy path with the array validated before the mapping is asked for
adjacency_of_array_shape_first(h, id, category1, category2, category_map) ==
    IF ndim(h[id]) # 3
    THEN [heap |-> h, out |-> Raise("InvalidShape", ndim(h[id]))]
    ELSE IF size(h[id]) = 0
    THEN [heap |-> h, out |-> Raise("EmptyVolume", 0)]
    ELSE IF IsNone(category_map)
    THEN [heap |-> h, out |-> Raise("MissingMapping", 0)]
    ELSE LET reverse_map == ReverseMap(category_map)
         IN  IF category1 \notin DOMAIN reverse_map
             THEN [heap |-> h, out |-> Raise("UnknownCategory", category1)]
             ELSE IF category2 \notin DOMAIN reverse_map
             THEN [heap |-> h, out |-> Raise("UnknownCategory", category2)]
             ELSE LET mask1 == EqScalar(h[id], reverse_map[category1])
                      mask2 == EqScalar(h[id], reverse_map[category2])
                  IN  IF EitherAbsent(mask1, mask2)
                      THEN [heap |-> h, out |-> Return(FALSE)]
                      ELSE [heap |-> h, out |-> Return(Overlap(mask1, mask2))]

\* check_category_adjacency, the legacy path on a raw array
adjacency_of_array(h, id, category1, category2, category_map) ==
    IF IsNone(category_map)
    THEN [heap |-> h, out |-> Raise("MissingMapping", 0)]
    ELSE IF ndim(h[id]) # 3
    THEN [heap |-> h, out |-> Raise("InvalidShape", ndim(h[id]))]
    ELSE IF size(h[id]) = 0
    THEN [heap |-> h, out |-> Raise("EmptyVolume", 0)]
    ELSE LET reverse_map == ReverseMap(category_map)
         IN  IF category1 \notin DOMAIN reverse_map
             THEN [heap |-> h, out |-> Raise("UnknownCategory", category1)]
             ELSE IF category2 \notin DOMAIN reverse_map
             THEN [heap |-> h, out |-> Raise("UnknownCategory", category2)]
             ELSE LET mask1 == EqScalar(h[id], reverse_map[category1])
                      mask2 == EqScalar(h[id], reverse_map[category2])
                  IN  IF EitherAbsent(mask1, mask2)
                      THEN [heap |-> h, out |-> Return(FALSE)]
                      ELSE [heap |-> h, out |-> Return(Overlap(mask1, mask2))]

check_category_adjacency(h, arg, category1, category2, category_map) ==
    IF IsCategoricalImage(arg)
    THEN adjacency_of_image(h, arg, category1, category2)
    ELSE adjacency_of_array(h, arg.ndarray, category1, category2, category_map)

\* a wrapper that does not hand the mapping on
check_green_touches_red_unmapped(h, arg, category_map) ==
    check_category_adjacency(h, arg, "green", "red", NoMap)

check_green_touches_red(h, arg, category_map) ==
    check_category_adjacency(h, arg, "green", "red", category_map)

----------------------------------------------------------------------------
(* The caller's inputs                                                     *)

Ranks == {2, 3}

\* the shapes of a rank, a zero axis included, with at most maxVox cells
Shapes(rank, maxVox) == {s \in [1..rank -> 0..MaxDim] : Product(s) <= maxVox}

\* an array that is bg everywhere but at p and q
TwoPoint(s, bg, p, vp, q, vq) ==
    [shape |-> s,
     cells |-> [x \in Positions(s) |-> IF x = q THEN vq ELSE IF x = p THEN vp ELSE bg]]

TwoPointArrays(s, bgs, vals) ==
    IF Product(s) = 0 THEN {[shape |-> s, cells |-> [x \in {} |-> 0]]}
    ELSE {TwoPoint(s, bg, p, vp, q, vq) :
            bg \in bgs, p \in Positions(s), q \in Positions(s), vp \in vals, vq \in vals}

\* the values of the cells: from a negative one up to one past the largest
\* code of the longest category list
Codes == -1..MaxCats

\* the codes a category list can give a name to
ValidCodes == 0..(MaxCats - 1)

\* the shapes of every rank, zero axes included
AnyShapes(maxVox) == UNION {Shapes(r, maxVox) : r \in Ranks}

\* the shapes of a volume: three axes, none of them zero
VolumeShapes(maxVox) == {s \in Shapes(3, maxVox) : Product(s) > 0}

\* integer arrays, zero but at two cells
IntArrays(shapes, vals) == UNION {TwoPointArrays(s, {0}, vals) : s \in shapes}

\* label arrays, one name of bgs but at two cells
LabelArrays(shapes, bgs) == UNION {TwoPointArrays(s, bgs, Names) : s \in shapes}

CategoryLists == UNION {[1..n -> Names] : n \in 0..MaxCats}

\* the lists that pass the checks on the categories
GoodLists ==
    {c \in CategoryLists : c # <<>> /\ \A i, j \in 1..Len(c) : c[i] = c[j] => i = j}

\* what a caller gives to CategoricalImage: a volume of valid codes of up to
\* maxVox cells with a list that passes, or any array of up to SmallVoxels
\* cells, of any rank and with any value, with any list
IntInputs(maxVox) ==
    (IntArrays(VolumeShapes(maxVox), ValidCodes) \X GoodLists)
        \cup (IntArrays(AnyShapes(SmallVoxels), Codes) \X CategoryLists)

\* what a caller gives to from_labels: a volume of up to maxVox cells in a
\* background of "background", or any array of up to SmallVoxels cells
LabelInputs(maxVox) ==
    LabelArrays(VolumeShapes(maxVox), {"background"})
        \cup LabelArrays(AnyShapes(SmallVoxels), Names)

----------------------------------------------------------------------------
(* The state machine: one caller, one image                                *)

NoCall == [op |-> "none", args |-> <<>>, out |-> Return(FALSE)]

Init ==
    /\ heap = [id \in ObjIds |-> Free]
    /\ image = NoImage
    /\ ret = NoCall

\* the outcome of a construction: the image, or none when it raised
Built(r) == IF r.out.status = "return" THEN r.out.value ELSE NoImage

\* the caller has made no call yet
Fresh == heap["caller_data"] = Free /\ heap["caller_labels"] = Free

\* the caller is between two calls
Idle == ret.op = "none"

Construct(maxVox) ==
    /\ Idle /\ Fresh
    /\ \E input \in IntInputs(maxVox) :
          LET h0 == Store(Store(heap, "caller_data", input[1]),
                          "caller_categories", List(input[2]))
              r == post_init(h0, "caller_data", "caller_categories")
          IN  /\ heap' = r.heap
              /\ image' = Built(r)
              /\ ret' = [op |-> "CategoricalImage", args |-> <<>>,
                         out |-> IF r.out.status = "return" THEN Return("image") ELSE r.out]

FromLabels(maxVox) ==
    /\ Idle /\ Fresh
    /\ \E labels \in LabelInputs(maxVox) :
          LET h0 == Store(heap, "caller_labels", labels)
              r == from_labels(h0, "caller_labels")
          IN  /\ heap' = r.heap
              /\ image' = Built(r)
              /\ ret' = [op |-> "from_labels", args |-> <<>>,
                         out |-> IF r.out.status = "return" THEN Return("image") ELSE r.out]

Shape ==
    /\ Idle /\ image.exists
    /\ ret' = [op |-> "shape", args |-> <<>>, out |-> shape(heap, image)]
    /\ UNCHANGED <<heap, image>>

HasCategory ==
    /\ Idle /\ image.exists
    /\ \E name \in Names :
          ret' = [op |-> "has_category", args |-> <<name>>,
                  out |-> has_category(heap, image, name)]
    /\ UNCHANGED <<heap, image>>

GetMask ==
    /\ Idle /\ image.exists
    /\ \E name \in Names :
          LET r == get_mask(heap, image, name)
          IN  /\ ret' = [op |-> "get_mask", args |-> <<name>>, out |-> r.out]
              /\ heap' = r.heap
    /\ UNCHANGED image

GetLabels ==
    /\ Idle /\ image.exists
    /\ LET r == get_labels(heap, image)
       IN  /\ ret' = [op |-> "get_labels", args |-> <<>>, out |-> r.out]
           /\ heap' = r.heap
    /\ UNCHANGED image

CountVoxels ==
    /\ Idle /\ image.exists
    /\ \E name \in Names :
          ret' = [op |-> "count_voxels", args |-> <<name>>,
                  out |-> count_voxels(heap, image, name)]
    /\ UNCHANGED <<heap, image>>

GetCategoryStats ==
    /\ Idle /\ image.exists
    /\ ret' = [op |-> "get_category_stats", args |-> <<>>,
               out |-> get_category_stats(heap, image)]
    /\ UNCHANGED <<heap, image>>

CheckCategoryAdjacency ==
    /\ Idle /\ image.exists
    /\ \E name1 \in Names, name2 \in Names :
          LET r == check_category_adjacency(heap, image, name1, name2, NoMap)
          IN  /\ ret' = [op |-> "check_category_adjacency", args |-> <<name1, name2>>,
                         out |-> r.out]
              /\ heap' = r.heap
    /\ UNCHANGED image

CheckGreenTouchesRed ==
    /\ Idle /\ image.exists
    /\ LET r == check_green_touches_red(heap, image, NoMap)
       IN  /\ ret' = [op |-> "check_green_touches_red", args |-> <<>>, out |-> r.out]
           /\ heap' = r.heap
    /\ UNCHANGED image

\* the caller has looked at the outcome of its call and lets go of it; without
\* an image it has nothing left to call
Discard ==
    /\ ~Idle
    /\ image.exists
    /\ ret' = NoCall
    /\ heap' = Store(heap, "result", Free)
    /\ UNCHANGED image

Query ==
    \/ Shape
    \/ HasCategory
    \/ GetMask
    \/ GetLabels
    \/ CountVoxels
    \/ GetCategoryStats
    \/ CheckCategoryAdjacency
    \/ CheckGreenTouchesRed

\* the legacy calls on the raw array the image was built from, without a
\* mapping or with the mapping of the caller's category list
LegacyMaps == {NoMap, MapOf(heap["caller_categories"].items)}

LegacyCheckCategoryAdjacency ==
    /\ Idle /\ image.exists /\ heap["caller_data"] # Free
    /\ \E name1 \in Names, name2 \in Names, category_map \in LegacyMaps :
          LET r == check_category_adjacency(heap, NdArray("caller_data"),
                                            name1, name2, category_map)
          IN  /\ ret' = [op |-> "legacy_check_category_adjacency",
                         args |-> <<name1, name2>>, map |-> category_map, out |-> r.out]
              /\ heap' = r.heap
    /\ UNCHANGED image

LegacyCheckGreenTouchesRed ==
    /\ Idle /\ image.exists /\ heap["caller_data"] # Free
    /\ \E category_map \in LegacyMaps :
          LET r == check_green_touches_red(heap, NdArray("caller_data"), category_map)
          IN  /\ ret' = [op |-> "legacy_check_green_touches_red",
                         args |-> <<>>, map |-> category_map, out |-> r.out]
              /\ heap' = r.heap
    /\ UNCHANGED image

\* what the caller writes into its own array and list after the construction
PokeValue == 99
PokeName == "modified"

\* data[0, 0, 0] = 99 on the caller's array
MutateCallerData ==
    /\ Idle /\ image.exists /\ heap["caller_data"] # Free
    /\ heap["caller_data"].cells[<<0, 0, 0>>] # PokeValue
    /\ heap' = [heap EXCEPT !["caller_data"].cells[<<0, 0, 0>>] = PokeValue]
    /\ UNCHANGED <<image, ret>>

\* categories[0] = "modified" on the caller's list
MutateCallerCategories ==
    /\ Idle /\ image.exists /\ heap["caller_categories"] # Free
    /\ heap["caller_categories"].items[1] # PokeName
    /\ heap' = [heap EXCEPT !["caller_categories"].items[1] = PokeName]
    /\ UNCHANGED <<image, ret>>

Next ==
    \/ Construct(MaxVoxels)
    \/ FromLabels(MaxVoxels)
    \/ Query
    \/ Discard

Spec == Init /\ [][Next]_vars

\* the largest number of cells of a volume given to both entry points
MidVoxels == 4

\* the codes a raw mapping gives names to, as {1: "green", 2: "red"} does
MapCodes == {1, 2}

\* the category_map of a call on a raw array: None, or a dict that gives
\* names, not always different ones, to some of the codes
RawMaps ==
    {NoMap} \cup {Dict(f) : f \in UNION {[S -> Names] : S \in SUBSET MapCodes}}

\* np.array(...): the caller has a raw array of any rank, an empty one
\* included, and no image
RawArray ==
    /\ Idle /\ Fresh
    /\ \E data \in IntArrays(AnyShapes(SmallVoxels), Codes) :
          heap' = Store(heap, "caller_data", data)
    /\ ret' = [op |-> "np.array", args |-> <<>>, out |-> Return("caller_data")]
    /\ UNCHANGED image

RawCheckCategoryAdjacency ==
    /\ ret.op = "np.array"
    /\ \E name1 \in Names, name2 \in Names, category_map \in RawMaps :
          LET r == check_category_adjacency(heap, NdArray("caller_data"),
                                            name1, name2, category_map)
          IN  /\ ret' = [op |-> "legacy_check_category_adjacency",
                         args |-> <<name1, name2>>, map |-> category_map, out |-> r.out]
              /\ heap' = r.heap
    /\ UNCHANGED image

RawCheckGreenTouchesRed ==
    /\ ret.op = "np.array"
    /\ \E category_map \in RawMaps :
          LET r == check_green_touches_red(heap, NdArray("caller_data"), category_map)
          IN  /\ ret' = [op |-> "legacy_check_green_touches_red",
                         args |-> <<>>, map |-> category_map, out |-> r.out]
              /\ heap' = r.heap
    /\ UNCHANGED image

\* both entry points: the checks on an image, the legacy checks on the array
\* the image was built from, and the legacy checks on a raw array
NextLegacy ==
    \/ Construct(MidVoxels)
    \/ CheckCategoryAdjacency
    \/ CheckGreenTouchesRed
    \/ LegacyCheckCategoryAdjacency
    \/ LegacyCheckGreenTouchesRed
    \/ RawArray
    \/ RawCheckCategoryAdjacency
    \/ RawCheckGreenTouchesRed
    \/ Discard

SpecLegacy == Init /\ [][NextLegacy]_vars

\* dilated_mask1 = ndimage.binary_dilation(mask1, structure=structure), on
\* its own: the dilation of the mask get_mask has just returned, which has a
\* true position as every mask has that the check dilates
Dilate ==
    /\ image.exists
    /\ ret.op = "get_mask" /\ ret.out.status = "return"
    /\ np_any(heap[ret.out.value])
    /\ ret' = [op |-> "binary_dilation", args |-> ret.args,
               out |-> Return(binary_dilation(heap[ret.out.value], Structure))]
    /\ UNCHANGED <<heap, image>>

\* the check and the two steps it is made of
NextDilation ==
    \/ Construct(MaxVoxels)
    \/ GetMask
    \/ Dilate
    \/ CheckCategoryAdjacency
    \/ Discard

SpecDilation == Init /\ [][NextDilation]_vars

\* small volumes, with the legacy calls and a caller that mutates its objects
NextCaller ==
    \/ Construct(SmallVoxels)
    \/ FromLabels(SmallVoxels)
    \/ Query
    \/ LegacyCheckCategoryAdjacency
    \/ LegacyCheckGreenTouchesRed
    \/ MutateCallerData
    \/ MutateCallerCategories
    \/ Discard

SpecCaller == Init /\ [][NextCaller]_vars

----------------------------------------------------------------------------
(* What the properties speak of, stated without the operators of the code  *)

\* the names of the image's vocabulary
Vocabulary == Range(heap[image.categories].items)

\* the code of a name: its place in the category list, counted from 0
CodeOf(name) ==
    (CHOOSE i \in 1..Len(heap[image.categories].items) :
        heap[image.categories].items[i] = name) - 1

\* the positions of the image whose voxel carries the name
Voxels(name) ==
    {p \in DOMAIN heap[image.data].cells : heap[image.data].cells[p] = CodeOf(name)}

Abs(n) == IF n < 0 THEN -n ELSE n

\* two positions that differ by at most 1 on every axis
Near(p, q) == \A i \in 1..3 : Abs(p[i] - q[i]) <= 1

\* 26-neighbours: near, and not the same position
Neighbours(p, q) == Near(p, q) /\ p # q

\* the outcome is the return of v, or the raise of the error kind(arg)
Returned(out, v) == out.status = "return" /\ out.value = v
Raised(out, kind, arg) ==
    out.status = "raise" /\ out.value.kind = kind /\ out.value.arg = arg

\* the call that has just returned is check_category_adjacency on the image,
\* with two names of the vocabulary
AdjacencyOfKnown ==
    /\ image.exists
    /\ ret.op = "check_category_adjacency"
    /\ ret.args[1] \in Vocabulary
    /\ ret.args[2] \in Vocabulary

----------------------------------------------------------------------------
(* C1: check_category_adjacency(volume, name1, name2), name1 = name2       *)
(* included, returns true if and only if some voxel carrying name1 and     *)
(* some voxel carrying name2 are 26-neighbours, the zero offset excluded.  *)
(* The code returns True for a name compared with itself whenever it has   *)
(* a voxel, also a single isolated one: the dilation keeps the centre.     *)
C1_AdjacencyIffNeighbourPair ==
    AdjacencyOfKnown =>
        Returned(ret.out, \E p \in Voxels(ret.args[1]), q \in Voxels(ret.args[2]) :
                              Neighbours(p, q))

----------------------------------------------------------------------------
(* C2: for two different vocabulary names a and b the check is true when   *)
(* some a-voxel and some b-voxel differ by at most 1 on every axis (face,  *)
(* edge and corner contact), and false when every such pair differs by 2   *)
(* or more on some axis.                                                   *)
C2_DistinctNamesTouchIffNear ==
    (AdjacencyOfKnown /\ ret.args[1] # ret.args[2]) =>
        Returned(ret.out, \E p \in Voxels(ret.args[1]), q \in Voxels(ret.args[2]) :
                              Near(p, q))

\* the check returned true for two names whose only contact is a 3D diagonal
C2_Witness3dDiagonal ==
    /\ AdjacencyOfKnown
    /\ ret.args[1] # ret.args[2]
    /\ Returned(ret.out, TRUE)
    /\ \A p \in Voxels(ret.args[1]), q \in Voxels(ret.args[2]) :
          Near(p, q) => \A i \in 1..3 : p[i] # q[i]

----------------------------------------------------------------------------
(* C3: symmetry. The check of (a, b) returns what the check of (b, a)      *)
(* returns, for every pair of vocabulary names, although only the first    *)
(* mask is dilated.                                                        *)
C3_Symmetric ==
    AdjacencyOfKnown =>
        ret.out = check_category_adjacency(heap, image, ret.args[2], ret.args[1],
                                           NoMap).out

\* the check returned true for a single voxel of a and several voxels of b
C3_WitnessUnevenMasks ==
    /\ AdjacencyOfKnown
    /\ Returned(ret.out, TRUE)
    /\ Cardinality(Voxels(ret.args[1])) = 1
    /\ Cardinality(Voxels(ret.args[2])) > 1

----------------------------------------------------------------------------
(* C4: when a or b, both of the vocabulary, has no voxel, the check        *)
(* returns false and raises no error; so does check_green_touches_red.     *)

\* the call that has just returned is one of the two checks on the image
AdjacencyCall ==
    /\ image.exists
    /\ ret.op \in {"check_category_adjacency", "check_green_touches_red"}

\* the two names the call compares
CallNames == IF ret.op = "check_green_touches_red" THEN <<"green", "red">> ELSE ret.args

C4_AbsentNeverTouches ==
    (/\ AdjacencyCall
     /\ CallNames[1] \in Vocabulary
     /\ CallNames[2] \in Vocabulary
     /\ (Voxels(CallNames[1]) = {} \/ Voxels(CallNames[2]) = {}))
        => Returned(ret.out, FALSE)

\* green and red are names of the vocabulary, no voxel carries either, and
\* check_green_touches_red returned false
C4_WitnessDefinedNotPresent ==
    /\ image.exists
    /\ ret.op = "check_green_touches_red"
    /\ {"green", "red"} \subseteq Vocabulary
    /\ Voxels("green") = {}
    /\ Voxels("red") = {}
    /\ Returned(ret.out, FALSE)

----------------------------------------------------------------------------
(* C5: a check with a name that is not of the vocabulary raises            *)
(* UnknownCategory for the first such name, also when the other category   *)
(* has no voxel; it returns a boolean exactly when both names are known.   *)
C5_UnknownNameRaises ==
    AdjacencyCall =>
        IF CallNames[1] \notin Vocabulary
        THEN Raised(ret.out, "UnknownCategory", CallNames[1])
        ELSE IF CallNames[2] \notin Vocabulary
        THEN Raised(ret.out, "UnknownCategory", CallNames[2])
        ELSE ret.out.status = "return" /\ ret.out.value \in BOOLEAN

\* the first name is known and has no voxel, the second is unknown, and the
\* call raised for the second
C5_WitnessUnknownBeatsAbsent ==
    /\ AdjacencyCall
    /\ CallNames[1] \in Vocabulary
    /\ Voxels(CallNames[1]) = {}
    /\ CallNames[2] \notin Vocabulary
    /\ Raised(ret.out, "UnknownCategory", CallNames[2])

----------------------------------------------------------------------------
(* C6: round trip. get_labels of the image from_labels built from the      *)
(* labels L is L again: the same shape and the same label at every         *)
(* position.                                                               *)
C6_RoundTrip ==
    (image.exists /\ ret.op = "get_labels" /\ heap["caller_labels"] # Free) =>
        /\ Returned(ret.out, "result")
        /\ heap["result"].shape = heap["caller_labels"].shape
        /\ heap["result"].cells = heap["caller_labels"].cells

\* get_labels returned for an image built from labels of three distinct names
C6_WitnessThreeLabels ==
    /\ image.exists
    /\ ret.op = "get_labels"
    /\ heap["caller_labels"] # Free
    /\ Cardinality(Values(heap["caller_labels"])) = 3
    /\ Returned(ret.out, "result")

----------------------------------------------------------------------------
(* C7: the counts of the vocabulary names add up to the number of voxels,  *)
(* and get_category_stats has exactly the vocabulary names as keys, each   *)
(* with the count count_voxels gives for it, zero counts included.         *)
RECURSIVE SumOver(_, _)
SumOver(f, S) ==
    IF S = {} THEN 0
    ELSE LET x == CHOOSE y \in S : TRUE IN f[x] + SumOver(f, S \ {x})

C7_CountsPartition ==
    /\ (image.exists /\ ret.op = "get_category_stats") =>
          /\ ret.out.status = "return"
          /\ DOMAIN ret.out.value = Vocabulary
          /\ \A name \in Vocabulary :
                /\ ret.out.value[name] = Cardinality(Voxels(name))
                /\ Returned(count_voxels(heap, image, name), ret.out.value[name])
          /\ SumOver(ret.out.value, Vocabulary) = Cardinality(DOMAIN heap[image.data].cells)
    /\ (image.exists /\ ret.op = "count_voxels" /\ ret.args[1] \in Vocabulary) =>
          Returned(ret.out, Cardinality(Voxels(ret.args[1])))

\* the statistics of an image that has a name without a voxel and two with
C7_WitnessZeroCount ==
    /\ image.exists
    /\ ret.op = "get_category_stats"
    /\ ret.out.status = "return"
    /\ \E name \in Vocabulary : ret.out.value[name] = 0
    /\ Cardinality({name \in Vocabulary : ret.out.value[name] > 0}) = 2

----------------------------------------------------------------------------
(* C8: for a non-empty 3D array without a negative value and a non-empty   *)
(* duplicate-free list of n names, the construction raises                 *)
(* ValueOutOfRange if the array holds a value of n or more, and succeeds   *)
(* if its largest value is n - 1 or less.                                  *)
WellFormedButForRange ==
    /\ ret.op = "CategoricalImage"
    /\ Len(heap["caller_data"].shape) = 3
    /\ \A i \in 1..3 : heap["caller_data"].shape[i] > 0
    /\ heap["caller_categories"].items # <<>>
    /\ \A i, j \in 1..Len(heap["caller_categories"].items) :
          heap["caller_categories"].items[i] = heap["caller_categories"].items[j] => i = j
    /\ \A p \in DOMAIN heap["caller_data"].cells : heap["caller_data"].cells[p] >= 0

C8_RangeBoundary ==
    WellFormedButForRange =>
        IF \E p \in DOMAIN heap["caller_data"].cells :
              heap["caller_data"].cells[p] >= Len(heap["caller_categories"].items)
        THEN ret.out.status = "raise" /\ ret.out.value.kind = "ValueOutOfRange"
                /\ ~image.exists
        ELSE Returned(ret.out, "image") /\ image.exists

\* the largest value is exactly the number of categories, and it is refused
C8_WitnessOnePast ==
    /\ WellFormedButForRange
    /\ \E p \in DOMAIN heap["caller_data"].cells :
          heap["caller_data"].cells[p] = Len(heap["caller_categories"].items)
    /\ \A p \in DOMAIN heap["caller_data"].cells :
          heap["caller_data"].cells[p] <= Len(heap["caller_categories"].items)
    /\ ret.out.status = "raise"

----------------------------------------------------------------------------
(* C9: copy isolation. Once the image is built from the caller's array     *)
(* and list, a write of the caller into either changes nothing that can    *)
(* be observed on the image: data, categories, shape, masks, counts,       *)
(* labels and every adjacency result stay as they were.                    *)

\* the array a call returns, or its outcome when it returns none
ArrayOf(r) == IF r.out.status = "return" THEN r.heap[r.out.value] ELSE r.out

\* everything the image lets a caller see
Observation ==
    [data |-> heap[image.data],
     categories |-> heap[image.categories],
     shape |-> shape(heap, image),
     has |-> [n \in Names |-> has_category(heap, image, n)],
     masks |-> [n \in Names |-> ArrayOf(get_mask(heap, image, n))],
     counts |-> [n \in Names |-> count_voxels(heap, image, n)],
     stats |-> get_category_stats(heap, image),
     labels |-> ArrayOf(get_labels(heap, image)),
     adjacency |-> [pair \in Names \X Names |->
                      check_category_adjacency(heap, image, pair[1], pair[2], NoMap).out],
     green_red |-> check_green_touches_red(heap, image, NoMap).out]

\* the step writes into an object of the caller
CallerWrites ==
    \/ heap'["caller_data"] # heap["caller_data"]
    \/ heap'["caller_categories"] # heap["caller_categories"]

C9_CopyIsolation ==
    [][(image.exists /\ heap["caller_data"] # Free /\ CallerWrites)
          => (image' = image /\ Observation' = Observation)]_vars

\* the caller has overwritten a cell of its array and the first name of its
\* list, and the image holds neither
C9_WitnessCallerWrote ==
    /\ image.exists
    /\ heap["caller_data"] # Free
    /\ PokeValue \in Values(heap["caller_data"])
    /\ heap["caller_categories"].items[1] = PokeName
    /\ PokeValue \notin Values(heap[image.data])
    /\ PokeName \notin Vocabulary

----------------------------------------------------------------------------
(* C10: immutability. No call on the image (shape, has_category, get_mask, *)
(* count_voxels, get_category_stats, get_labels, the two checks) and no    *)
(* legacy call on the caller's raw array changes a voxel value or a        *)
(* category name, the image's fields or the caller's array and list; and   *)
(* an array that get_mask or get_labels returns is a new object.           *)

\* the step is a call made while the image exists
CallStep == image.exists /\ ret.op = "none" /\ ret'.op # "none"

C10_CallsChangeNothing ==
    [][CallStep =>
          /\ image' = image
          /\ heap'[image.data] = heap[image.data]
          /\ heap'[image.categories] = heap[image.categories]
          /\ heap'["caller_data"] = heap["caller_data"]
          /\ heap'["caller_categories"] = heap["caller_categories"]
          /\ heap'["caller_labels"] = heap["caller_labels"]
          /\ (ret'.op \in {"get_mask", "get_labels"} /\ ret'.out.status = "return") =>
                /\ heap[ret'.out.value] = Free
                /\ heap'[ret'.out.value] # Free
                /\ ret'.out.value \notin {image.data, image.categories}]_vars

\* a legacy check on the caller's raw array has returned true, and the image
\* and the array are there
C10_WitnessLegacyReturned ==
    /\ image.exists
    /\ ret.op = "legacy_check_category_adjacency"
    /\ Returned(ret.out, TRUE)
    /\ heap["caller_data"] # Free
    /\ heap["caller_data"].cells = heap[image.data].cells

----------------------------------------------------------------------------
(* Several callers on one image                                            *)
(*                                                                         *)
(* Once the image is built it is handed to several callers, which run      *)
(* their calls at the same time. A call is a sequence of steps, one for    *)
(* every read of the image's fields; what a call computes between two      *)
(* reads it computes on arrays of its own, which its frame holds.          *)

Callers == {"caller1", "caller2"}

\* the names the callers ask about
CallerNames == {"green", "red"}

IdleFrame == [op |-> "none", args |-> <<>>, pc |-> "idle", local |-> <<>>,
              out |-> Return(FALSE)]

\* the frame of a call that is at pc, with its local values
Running(op, args, pc, local) ==
    [op |-> op, args |-> args, pc |-> pc, local |-> local, out |-> Return(FALSE)]

\* the frame of a call that has returned or raised
Done(op, args, out) == [op |-> op, args |-> args, pc |-> "done", local |-> <<>>, out |-> out]

\* the callers are at work
Calling == ret.op = "callers"

Frame(t) == ret.frames[t]

\* the outcome of a call that returns an array, with the array itself in the
\* place of its reference: the frame of the caller is all that refers to it
Taken(r) ==
    IF r.out.status = "return" THEN Return(r.heap[r.out.value]) ELSE r.out

\* the heap once the caller has taken the array the call made
Released(r) == Store(r.heap, "result", Free)

\* the image goes to the callers
Spawn ==
    /\ ret.op \in {"CategoricalImage", "from_labels"}
    /\ image.exists
    /\ ret' = [op |-> "callers", args |-> <<>>, out |-> Return("image"),
               frames |-> [t \in Callers |-> IdleFrame]]
    /\ UNCHANGED <<heap, image>>

CallerShape(t) ==
    /\ Calling /\ Frame(t).pc = "idle"
    /\ ret' = [ret EXCEPT !.frames[t] = Done("shape", <<>>, shape(heap, image))]
    /\ UNCHANGED <<heap, image>>

CallerHasCategory(t) ==
    /\ Calling /\ Frame(t).pc = "idle"
    /\ \E name \in CallerNames :
          ret' = [ret EXCEPT !.frames[t] =
                     Done("has_category", <<name>>, has_category(heap, image, name))]
    /\ UNCHANGED <<heap, image>>

CallerCountVoxels(t) ==
    /\ Calling /\ Frame(t).pc = "idle"
    /\ \E name \in CallerNames :
          ret' = [ret EXCEPT !.frames[t] =
                     Done("count_voxels", <<name>>, count_voxels(heap, image, name))]
    /\ UNCHANGED <<heap, image>>

CallerGetMask(t) ==
    /\ Calling /\ Frame(t).pc = "idle"
    /\ \E name \in CallerNames :
          LET r == get_mask(heap, image, name)
          IN  /\ ret' = [ret EXCEPT !.frames[t] = Done("get_mask", <<name>>, Taken(r))]
              /\ heap' = Released(r)
    /\ UNCHANGED image

\* check_category_adjacency up to mask1 = image.get_mask(category1);
\* check_green_touches_red is the same call with its two names
CallerAdjacencyFirst(t) ==
    /\ Calling /\ Frame(t).pc = "idle"
    /\ \E op \in {"check_category_adjacency", "check_green_touches_red"},
          name1 \in CallerNames, name2 \in CallerNames :
          /\ op = "check_green_touches_red" => (name1 = "green" /\ name2 = "red")
          /\ LET r == get_mask(heap, image, name1)
                 args == IF op = "check_green_touches_red" THEN <<>> ELSE <<name1, name2>>
             IN  /\ ret' = [ret EXCEPT !.frames[t] =
                               IF r.out.status = "raise"
                               THEN Done(op, args, r.out)
                               ELSE Running(op, args, "mask2",
                                            [category2 |-> name2,
                                             mask1 |-> r.heap[r.out.value]])]
                 /\ heap' = Released(r)
    /\ UNCHANGED image

\* mask2 = image.get_mask(category2) and the rest of the call, which reads
\* nothing but the two masks
CallerAdjacencySecond(t) ==
    /\ Calling /\ Frame(t).pc = "mask2"
    /\ LET f == Frame(t)
           r == get_mask(heap, image, f.local.category2)
       IN  /\ ret' = [ret EXCEPT !.frames[t] =
                         Done(f.op, f.args,
                              IF r.out.status = "raise" THEN r.out
                              ELSE IF EitherAbsent(f.local.mask1, r.heap[r.out.value])
                              THEN Return(FALSE)
                              ELSE Return(Overlap(f.local.mask1, r.heap[r.out.value])))]
           /\ heap' = Released(r)
    /\ UNCHANGED image

\* get_labels up to labels = np.empty(self.shape, dtype=object)
CallerGetLabelsFirst(t) ==
    /\ Calling /\ Frame(t).pc = "idle"
    /\ ret' = [ret EXCEPT !.frames[t] =
                  Running("get_labels", <<>>, "loop",
                          [i |-> 1,
                           acc |-> [shape |-> Data(heap, image).shape,
                                    cells |-> [p \in DOMAIN Data(heap, image).cells |->
                                                 NoneLabel]]])]
    /\ UNCHANGED <<heap, image>>

\* one turn of the loop of get_labels: labels[self.data == idx] = category
CallerGetLabelsNext(t) ==
    /\ Calling /\ Frame(t).pc = "loop" /\ Frame(t).op = "get_labels"
    /\ LET f == Frame(t)
           categories == Categories(heap, image)
           labels == DecodeLoop(Data(heap, image), SubSeq(categories, 1, f.local.i),
                                f.local.i, f.local.acc)
       IN  ret' = [ret EXCEPT !.frames[t] =
                      IF f.local.i = Len(categories)
                      THEN Done(f.op, f.args, Return(labels))
                      ELSE Running(f.op, f.args, "loop",
                                   [i |-> f.local.i + 1, acc |-> labels])]
    /\ UNCHANGED <<heap, image>>

\* get_category_stats up to the first turn of its comprehension
CallerStatsFirst(t) ==
    /\ Calling /\ Frame(t).pc = "idle"
    /\ ret' = [ret EXCEPT !.frames[t] =
                  Running("get_category_stats", <<>>, "loop",
                          [i |-> 1, acc |-> [cat \in {} |-> 0]])]
    /\ UNCHANGED <<heap, image>>

\* one turn of the comprehension of get_category_stats: cat: self.count_voxels(cat)
CallerStatsNext(t) ==
    /\ Calling /\ Frame(t).pc = "loop" /\ Frame(t).op = "get_category_stats"
    /\ LET f == Frame(t)
           categories == Categories(heap, image)
           cat == categories[f.local.i]
           c == count_voxels(heap, image, cat)
           counts == [k \in DOMAIN f.local.acc \cup {cat} |->
                         IF k = cat THEN c.value ELSE f.local.acc[k]]
       IN  ret' = [ret EXCEPT !.frames[t] =
                      IF c.status = "raise" THEN Done(f.op, f.args, c)
                      ELSE IF f.local.i = Len(categories)
                      THEN Done(f.op, f.args, Return(counts))
                      ELSE Running(f.op, f.args, "loop",
                                   [i |-> f.local.i + 1, acc |-> counts])]
    /\ UNCHANGED <<heap, image>>

\* the caller has its outcome and is free for its next call
CallerReturn(t) ==
    /\ Calling /\ Frame(t).pc = "done"
    /\ ret' = [ret EXCEPT !.frames[t] = IdleFrame]
    /\ UNCHANGED <<heap, image>>

NextCallers ==
    \/ Construct(SmallVoxels)
    \/ FromLabels(SmallVoxels)
    \/ Spawn
    \/ \E t \in Callers : CallerShape(t)
    \/ \E t \in Callers : CallerHasCategory(t)
    \/ \E t \in Callers : CallerCountVoxels(t)
    \/ \E t \in Callers : CallerGetMask(t)
    \/ \E t \in Callers : CallerAdjacencyFirst(t)
    \/ \E t \in Callers : CallerAdjacencySecond(t)
    \/ \E t \in Callers : CallerGetLabelsFirst(t)
    \/ \E t \in Callers : CallerGetLabelsNext(t)
    \/ \E t \in Callers : CallerStatsFirst(t)
    \/ \E t \in Callers : CallerStatsNext(t)
    \/ \E t \in Callers : CallerReturn(t)

SpecCallers == Init /\ [][NextCallers]_vars

----------------------------------------------------------------------------
(* C11: when several callers run queries and adjacency checks on the same  *)
(* image in any interleaving, every call has the outcome it has when it    *)
(* runs alone on that image, and the data and the categories of the image  *)
(* are the same in every state.                                            *)

\* the outcome of the call when nothing else runs
Alone(op, args) ==
    CASE op = "shape" -> shape(heap, image)
      [] op = "has_category" -> has_category(heap, image, args[1])
      [] op = "count_voxels" -> count_voxels(heap, image, args[1])
      [] op = "get_mask" -> Taken(get_mask(heap, image, args[1]))
      [] op = "get_labels" -> Taken(get_labels(heap, image))
      [] op = "get_category_stats" -> get_category_stats(heap, image)
      [] op = "check_category_adjacency" ->
            check_category_adjacency(heap, image, args[1], args[2], NoMap).out
      [] op = "check_green_touches_red" -> check_green_touches_red(heap, image, NoMap).out

SameOutcome(o1, o2) ==
    /\ o1.status = o2.status
    /\ IF o1.status = "raise"
       THEN o1.value.kind = o2.value.kind /\ o1.value.arg = o2.value.arg
       ELSE o1.value = o2.value

\* the source the image was built from, which no caller of this
\* specification writes to
SourceData == IF heap["caller_data"] # Free THEN heap["caller_data"] ELSE heap["encoded"]

C11_CallersAgree ==
    Calling =>
        /\ \A t \in Callers :
              Frame(t).pc = "done" => SameOutcome(Frame(t).out, Alone(Frame(t).op, Frame(t).args))
        /\ heap[image.data].shape = SourceData.shape
        /\ heap[image.data].cells = SourceData.cells
        /\ heap[image.categories].items =
              (IF heap["caller_data"] # Free THEN heap["caller_categories"].items
               ELSE heap["unique"].items)

\* a check of one caller has returned true while a call of the other is
\* between its two reads of the image
C11_WitnessInterleaved ==
    /\ Calling
    /\ \E t, u \in Callers :
          /\ t # u
          /\ Frame(t).pc = "done"
          /\ Frame(t).op = "check_category_adjacency"
          /\ Frame(t).args[1] # Frame(t).args[2]
          /\ Returned(Frame(t).out, TRUE)
          /\ Frame(u).pc \in {"mask2", "loop"}

----------------------------------------------------------------------------
(* C12: has_category(name) never raises. It returns true if and only if    *)
(* name is of the vocabulary and at least one voxel carries its code: it   *)
(* is false for an unknown name and for a known name without a voxel; for  *)
(* a name of the vocabulary it is count_voxels(name) > 0.                  *)
C12_HasCategoryIffVoxel ==
    (image.exists /\ ret.op = "has_category") =>
        /\ ret.out.status = "return"
        /\ ret.out.value = (ret.args[1] \in Vocabulary /\ Voxels(ret.args[1]) # {})
        /\ ret.args[1] \in Vocabulary =>
              /\ count_voxels(heap, image, ret.args[1]).status = "return"
              /\ ret.out.value = (count_voxels(heap, image, ret.args[1]).value > 0)

\* has_category returned false for a name of the vocabulary no voxel carries
C12_WitnessKnownWithoutVoxel ==
    /\ image.exists
    /\ ret.op = "has_category"
    /\ ret.args[1] \in Vocabulary
    /\ Voxels(ret.args[1]) = {}
    /\ Returned(ret.out, FALSE)

----------------------------------------------------------------------------
(* C13: get_mask(name) and count_voxels(name) raise UnknownCategory if and *)
(* only if name is not of the vocabulary. For a name of the vocabulary,    *)
(* also one without a voxel, get_mask returns a boolean array of the shape *)
(* of the image that is true at exactly the positions whose code is the    *)
(* index of the name, and count_voxels returns the number of true          *)
(* positions of that mask.                                                 *)
C13_MaskAndCount ==
    /\ (image.exists /\ ret.op = "get_mask") =>
          IF ret.args[1] \notin Vocabulary
          THEN Raised(ret.out, "UnknownCategory", ret.args[1])
          ELSE /\ Returned(ret.out, "result")
               /\ heap["result"].shape = heap[image.data].shape
               /\ DOMAIN heap["result"].cells = DOMAIN heap[image.data].cells
               /\ \A p \in DOMAIN heap["result"].cells :
                     /\ heap["result"].cells[p] \in BOOLEAN
                     /\ heap["result"].cells[p] = (p \in Voxels(ret.args[1]))
    /\ (image.exists /\ ret.op = "count_voxels") =>
          IF ret.args[1] \notin Vocabulary
          THEN Raised(ret.out, "UnknownCategory", ret.args[1])
          ELSE LET mask == get_mask(heap, image, ret.args[1]).heap["result"]
               IN  Returned(ret.out, Cardinality({p \in DOMAIN mask.cells : mask.cells[p]}))

\* get_mask returned a mask without a true position, for a name of the
\* vocabulary that no voxel carries
C13_WitnessEmptyMask ==
    /\ image.exists
    /\ ret.op = "get_mask"
    /\ ret.args[1] \in Vocabulary
    /\ Returned(ret.out, "result")
    /\ \A p \in DOMAIN heap["result"].cells : ~heap["result"].cells[p]

----------------------------------------------------------------------------
(* C14: check_green_touches_red(x) has the outcome of                      *)
(* check_category_adjacency(x, "green", "red") for every x, an image or a  *)
(* raw array with or without a mapping: the same boolean or the same       *)
(* error.                                                                  *)

\* the call that has just returned is a legacy call, on a raw array
LegacyCall ==
    ret.op \in {"legacy_check_category_adjacency", "legacy_check_green_touches_red"}

C14_WrapperIsGreenRed ==
    /\ (image.exists /\ ret.op = "check_green_touches_red") =>
          SameOutcome(ret.out,
                      check_category_adjacency(heap, image, "green", "red", NoMap).out)
    /\ ret.op = "legacy_check_green_touches_red" =>
          SameOutcome(ret.out,
                      check_category_adjacency(heap, NdArray("caller_data"),
                                               "green", "red", ret.map).out)

\* the wrapper returned true on a raw array with a mapping, and no image is
\* there
C14_WitnessRawWithMap ==
    /\ ~image.exists
    /\ ret.op = "legacy_check_green_touches_red"
    /\ ~IsNone(ret.map)
    /\ Returned(ret.out, TRUE)

----------------------------------------------------------------------------
(* C15: a legacy call without the mapping raises MissingMapping, an error  *)
(* that is none of InvalidShape, EmptyVolume and UnknownCategory, for      *)
(* every raw array, of any rank and empty or not: the check of the mapping *)
(* comes before the check of the rank, which comes before the check of     *)
(* the size, which comes before the lookup of name1 and then of name2.     *)

\* the two names a legacy call compares
LegacyNames ==
    IF ret.op = "legacy_check_green_touches_red" THEN <<"green", "red">> ELSE ret.args

\* the names the mapping of the call has
MappedNames == {ret.map.items[code] : code \in DOMAIN ret.map.items}

C15_MissingMappingFirst ==
    LegacyCall =>
        IF IsNone(ret.map)
        THEN /\ Raised(ret.out, "MissingMapping", 0)
             /\ ret.out.value.kind \notin {"InvalidShape", "EmptyVolume", "UnknownCategory"}
        ELSE IF Len(heap["caller_data"].shape) # 3
        THEN Raised(ret.out, "InvalidShape", Len(heap["caller_data"].shape))
        ELSE IF \E i \in 1..3 : heap["caller_data"].shape[i] = 0
        THEN Raised(ret.out, "EmptyVolume", 0)
        ELSE IF LegacyNames[1] \notin MappedNames
        THEN Raised(ret.out, "UnknownCategory", LegacyNames[1])
        ELSE IF LegacyNames[2] \notin MappedNames
        THEN Raised(ret.out, "UnknownCategory", LegacyNames[2])
        ELSE ret.out.status = "return" /\ ret.out.value \in BOOLEAN

\* a legacy call without a mapping on an empty array of rank 2 has raised
\* MissingMapping
C15_WitnessEmpty2dNoMap ==
    /\ LegacyCall
    /\ IsNone(ret.map)
    /\ Len(heap["caller_data"].shape) = 2
    /\ \E i \in 1..2 : heap["caller_data"].shape[i] = 0
    /\ Raised(ret.out, "MissingMapping", 0)

----------------------------------------------------------------------------
(* C16: CategoricalImage(data, categories) validates in a fixed order and  *)
(* raises for the first check that fails: a rank other than 3 gives        *)
(* InvalidShape; else a zero dimension gives EmptyVolume; else an empty    *)
(* list or a list with a duplicate gives InvalidCategories; else a value   *)
(* below 0 gives NegativeValue; else a value of len(categories) or more    *)
(* gives ValueOutOfRange. An input that breaks several rules gets the      *)
(* error of the earliest one.                                              *)
C16_FirstFailingCheck ==
    ret.op = "CategoricalImage" =>
        LET data == heap["caller_data"]
            categories == heap["caller_categories"].items
            values == {data.cells[p] : p \in DOMAIN data.cells}
        IN  IF Len(data.shape) # 3
            THEN Raised(ret.out, "InvalidShape", Len(data.shape))
            ELSE IF \E i \in 1..3 : data.shape[i] = 0
            THEN Raised(ret.out, "EmptyVolume", 0)
            ELSE IF categories = <<>>
            THEN Raised(ret.out, "InvalidCategories", "empty")
            ELSE IF \E i, j \in 1..Len(categories) : i # j /\ categories[i] = categories[j]
            THEN Raised(ret.out, "InvalidCategories", "duplicate")
            ELSE IF \E v \in values : v < 0
            THEN /\ ret.out.status = "raise"
                 /\ ret.out.value.kind = "NegativeValue"
                 /\ ret.out.value.arg \in values
                 /\ \A v \in values : ret.out.value.arg <= v
            ELSE IF \E v \in values : v >= Len(categories)
            THEN /\ ret.out.status = "raise"
                 /\ ret.out.value.kind = "ValueOutOfRange"
                 /\ ret.out.value.arg \in values
                 /\ \A v \in values : v <= ret.out.value.arg
            ELSE Returned(ret.out, "image")

\* the data holds a negative value and a value past the categories, nothing
\* else is wrong, and NegativeValue was raised
C16_WitnessNegativeAndTooLarge ==
    /\ ret.op = "CategoricalImage"
    /\ Len(heap["caller_data"].shape) = 3
    /\ heap["caller_categories"].items # <<>>
    /\ ~HasDuplicates(heap["caller_categories"].items)
    /\ \E p, q \in DOMAIN heap["caller_data"].cells :
          /\ heap["caller_data"].cells[p] < 0
          /\ heap["caller_data"].cells[q] >= Len(heap["caller_categories"].items)
    /\ ret.out.status = "raise"
    /\ ret.out.value.kind = "NegativeValue"

----------------------------------------------------------------------------
(* C17: no partial success. Every image there is, from either constructor, *)
(* has exactly 3 dimensions, none of them zero, a non-empty category list  *)
(* without duplicates, every voxel value in 0..len(categories)-1, and an   *)
(* index that sends categories[i] to i for every i; a construction that    *)
(* raises leaves no image.                                                 *)
C17_ImagesAreWellFormed ==
    /\ image.exists =>
          LET data == heap[image.data]
              categories == heap[image.categories].items
          IN  /\ Len(data.shape) = 3
              /\ \A i \in 1..3 : data.shape[i] > 0
              /\ DOMAIN data.cells = Positions(data.shape)
              /\ categories # <<>>
              /\ \A i, j \in 1..Len(categories) : categories[i] = categories[j] => i = j
              /\ \A p \in DOMAIN data.cells : data.cells[p] \in 0..(Len(categories) - 1)
              /\ DOMAIN image._category_to_index = {categories[i] : i \in 1..Len(categories)}
              /\ \A i \in 1..Len(categories) :
                    image._category_to_index[categories[i]] = i - 1
    /\ ret.op \in {"CategoricalImage", "from_labels"} =>
          (image.exists <=> Returned(ret.out, "image"))

\* from_labels has built an image of three categories
C17_WitnessImageOfThree ==
    /\ image.exists
    /\ ret.op = "from_labels"
    /\ Returned(ret.out, "image")
    /\ Len(heap[image.categories].items) = 3

----------------------------------------------------------------------------
(* C18: from_labels on a non-empty 3D array of strings gives a vocabulary  *)
(* that is the distinct labels in increasing lexicographic order, without  *)
(* duplicates, and encodes every voxel with the rank of its label in that  *)
(* order: the codes are 0..k-1, every one carried by a voxel, and the code *)
(* of a label is the number of distinct labels below it, whatever the      *)
(* positions or the order of appearance. A rank other than 3 raises        *)
(* InvalidShape and an empty array raises EmptyVolume.                     *)
C18_FromLabelsSortedCodes ==
    ret.op = "from_labels" =>
        LET labels == heap["caller_labels"]
            present == {labels.cells[p] : p \in DOMAIN labels.cells}
        IN  IF Len(labels.shape) # 3
            THEN Raised(ret.out, "InvalidShape", Len(labels.shape)) /\ ~image.exists
            ELSE IF \E i \in 1..3 : labels.shape[i] = 0
            THEN Raised(ret.out, "EmptyVolume", 0) /\ ~image.exists
            ELSE /\ Returned(ret.out, "image")
                 /\ image.exists
                 /\ LET categories == heap[image.categories].items
                        data == heap[image.data]
                    IN  /\ {categories[i] : i \in 1..Len(categories)} = present
                        /\ \A i, j \in 1..Len(categories) :
                              i < j => StrLess(categories[i], categories[j])
                        /\ data.shape = labels.shape
                        /\ \A p \in DOMAIN labels.cells :
                              /\ data.cells[p] =
                                    Cardinality({n \in present : StrLess(n, labels.cells[p])})
                              /\ categories[data.cells[p] + 1] = labels.cells[p]
                        /\ \A code \in 0..(Len(categories) - 1) :
                              \E p \in DOMAIN data.cells : data.cells[p] = code
                        /\ \A n \in present :
                              image._category_to_index[n] =
                                  Cardinality({m \in present : StrLess(m, n)})

\* from_labels has built an image from three labels of which the largest
\* comes first in the array
C18_WitnessLargestFirst ==
    /\ ret.op = "from_labels"
    /\ image.exists
    /\ Cardinality(Values(heap["caller_labels"])) = 3
    /\ heap["caller_labels"].cells[<<0, 0, 0>>] = "red"

----------------------------------------------------------------------------
(* C19: for an image v with the categories c and the mapping               *)
(* m = {i: c[i]}, the legacy check of v's data with m has the outcome of   *)
(* the check of v for every pair of names: the same boolean, or            *)
(* UnknownCategory in both. And the legacy entry point with a mapping      *)
(* raises InvalidShape for a raw array of a rank other than 3 and          *)
(* EmptyVolume for an empty one, as the construction does.                 *)

\* the legacy call was made on the data of the image with the mapping of
\* its categories
LegacyCallOnImageData ==
    /\ LegacyCall
    /\ image.exists
    /\ heap["caller_data"].shape = heap[image.data].shape
    /\ heap["caller_data"].cells = heap[image.data].cells
    /\ ~IsNone(ret.map)
    /\ DOMAIN ret.map.items = 0..(Len(heap[image.categories].items) - 1)
    /\ \A code \in DOMAIN ret.map.items :
          ret.map.items[code] = heap[image.categories].items[code + 1]

\* what CategoricalImage(data, ["background"]) does with the caller's array
ConstructionOfRaw ==
    post_init(Store(heap, "caller_categories", List(<<"background">>)),
              "caller_data", "caller_categories").out

C19_LegacyAgrees ==
    /\ LegacyCallOnImageData =>
          LET structured == check_category_adjacency(heap, image, LegacyNames[1],
                                                     LegacyNames[2], NoMap).out
          IN  IF structured.status = "raise"
              THEN /\ structured.value.kind = "UnknownCategory"
                   /\ Raised(ret.out, "UnknownCategory", structured.value.arg)
              ELSE Returned(ret.out, structured.value)
    /\ (LegacyCall /\ ~IsNone(ret.map) /\ Len(heap["caller_data"].shape) # 3) =>
          /\ Raised(ret.out, "InvalidShape", Len(heap["caller_data"].shape))
          /\ SameOutcome(ret.out, ConstructionOfRaw)
    /\ (/\ LegacyCall /\ ~IsNone(ret.map) /\ Len(heap["caller_data"].shape) = 3
        /\ \E i \in 1..3 : heap["caller_data"].shape[i] = 0) =>
          /\ Raised(ret.out, "EmptyVolume", 0)
          /\ SameOutcome(ret.out, ConstructionOfRaw)

\* the legacy check of the data of an image returned false for two names
\* that both have voxels
C19_WitnessApartInBoth ==
    /\ LegacyCallOnImageData
    /\ ret.op = "legacy_check_category_adjacency"
    /\ Returned(ret.out, FALSE)
    /\ Voxels(LegacyNames[1]) # {}
    /\ Voxels(LegacyNames[2]) # {}

\* a legacy call with a mapping on an empty array of rank 3 has raised
C19_WitnessEmptyRaw ==
    /\ LegacyCall
    /\ ~IsNone(ret.map)
    /\ Len(heap["caller_data"].shape) = 3
    /\ \E i \in 1..3 : heap["caller_data"].shape[i] = 0
    /\ ret.out.status = "raise"

----------------------------------------------------------------------------
(* C20: boundary policy. The one-step dilation of a mask has the shape of  *)
(* the volume and is true at a position exactly when that position or one  *)
(* of its 26-neighbours inside the volume is true in the mask. It does not *)
(* wrap around: on an axis of length 3 or more a voxel at coordinate 0 and *)
(* a voxel at the last coordinate are not adjacent on account of that      *)
(* axis, and a voxel at an edge or corner has no neighbour outside.        *)
C20_DilationStaysInside ==
    /\ (image.exists /\ ret.op = "binary_dilation") =>
          LET dilated == ret.out.value
              inside == DOMAIN heap[image.data].cells
          IN  /\ dilated.shape = heap[image.data].shape
              /\ DOMAIN dilated.cells = inside
              /\ \A p \in inside :
                    dilated.cells[p] =
                        (\E q \in inside : Near(p, q) /\ q \in Voxels(ret.args[1]))
    /\ (/\ AdjacencyOfKnown
        /\ ret.args[1] # ret.args[2]
        /\ \A p \in Voxels(ret.args[1]), q \in Voxels(ret.args[2]) :
              \E i \in 1..3 : Abs(p[i] - q[i]) >= 2) =>
          Returned(ret.out, FALSE)

\* the two ends of an axis of length 3 are one step apart around the volume
WrapNear(p, q) ==
    \A i \in 1..3 :
        \/ Abs(p[i] - q[i]) <= 1
        \/ Abs(p[i] - q[i]) = heap[image.data].shape[i] - 1

\* the check returned false for two names whose voxels are at the two ends
\* of an axis and would touch if the volume wrapped around
C20_WitnessOppositeEnds ==
    /\ AdjacencyOfKnown
    /\ ret.args[1] # ret.args[2]
    /\ Returned(ret.out, FALSE)
    /\ \E p \in Voxels(ret.args[1]), q \in Voxels(ret.args[2]) : WrapNear(p, q)

====
